---- MODULE Spec2Model ----
(***************************************************************************)
(* The presence and call-signalling hub of src/api/index.js: the socket.io *)
(* connection handlers (register, call-request, call-accepted,             *)
(* call-rejected, disconnect), the per-disconnect grace timer and the      *)
(* periodic stale-call reaper, over the two global maps activeUsers and    *)
(* activeCalls.  Node runs every handler to completion on one event loop,  *)
(* so each handler is one action; the only yield point inside a handler is *)
(* the await in register, which splits it in two.                          *)
(***************************************************************************)
EXTENDS Integers, Sequences, FiniteSets, TLC

\* ---------------------------------------------------------------- bounds
MaxSockets == 2             \* connections ever opened (socket ids are fresh)
MaxAwaiting == 1            \* register handlers suspended at their await
MaxCount == 2               \* where the count of offline broadcasts stops

\* ------------------------------------------------------- program constants
GracePeriod == 2000         \* setTimeout delay of the disconnect handler
ReapInterval == 10000       \* setInterval period of the reaper
CallTimeout == 30000        \* age past which a pending call is stale

UserIds == {"u1", "u2"}         \* the users that connect
OtherIds == {"u3"}              \* a user id met in messages only
CallIds == {"c1", "c2"}
Sockets == 1..MaxSockets
Empty == ""                 \* a missing or empty message field (falsy in JS)
Null == "null"              \* let currentUserId = null
None == "-"                 \* a payload field the event does not carry
AgeCap == CallTimeout + ReapInterval  \* ages past the timeout are not told apart

VARIABLES
    opened,         \* number of connections accepted so far; the next id is opened + 1
    sockets,        \* io.sockets.sockets: the ids of the live connections
    currentUserId,  \* the closure variable of each live connection
    activeUsers,    \* Map userId -> Set of socket ids
    activeCalls,    \* Map callId -> {participants, status, age}, age = now - createdAt
    timers,         \* grace timers set by disconnect and not yet fired, oldest first;
                    \* each also records whether its user has registered since (history)
    awaiting,       \* register handlers suspended at await User.findById: socket,
                    \* userId, and whether the user had an entry with a socket
                    \* when the handler started (history)
    out,            \* the events emitted by the last step, one per receiving socket
    offlineSent,    \* per user: user-offline broadcasts since its last register (history)
    lastPresence,   \* per user: the presence event broadcast about it last (history)
    \* the chat client of one user (src/client/src/Chat.jsx)
    socket,         \* whether the component holds its socket (set on mount, null after logout)
    callStatus,     \* useState("idle")
    incomingCall,   \* useState(null): the call of the last incoming-call event
    callTimeouts,   \* the timeouts set by handleVideoCall, each with the callStatus
                    \* its closure captured
    emitted,        \* what the last step of the client sent to the hub
    alerted         \* the alert the last step of the client showed

hub == <<opened, sockets, currentUserId, activeUsers, activeCalls, timers,
         awaiting, out, offlineSent, lastPresence>>

client == <<socket, callStatus, incomingCall, callTimeouts, emitted, alerted>>

vars == <<hub, client>>

\* ---------------------------------------------------------------- helpers
Msg(to, ev, callId, userId, reason) ==
    [to |-> to, ev |-> ev, callId |-> callId, userId |-> userId, reason |-> reason]

\* !x for a message field
Falsy(x) == x = Empty

\* activeUsers.get(userId), with undefined read as the empty set
SocketsOf(users, userId) ==
    IF userId \in DOMAIN users THEN users[userId] ELSE {}

\* Live with the handle used whether or not its connection is open
LiveUnchecked(ids) == ids

\* the ids among ids for which io.sockets.sockets.get(id) is defined
Live(ids) == ids \cap sockets

\* Map.set and Map.delete
MapSet(m, k, v) == [x \in DOMAIN m \cup {k} |-> IF x = k THEN v ELSE m[x]]
MapDelete(m, ks) == [x \in DOMAIN m \ ks |-> m[x]]

\* call.participants.includes(userId)
Includes(call, userId) == call.participants[1] = userId \/ call.participants[2] = userId

\* call.participants.find(id => id !== userId)
OtherParticipant(call, userId) ==
    IF call.participants[1] # userId THEN call.participants[1] ELSE call.participants[2]

\* socket.broadcast.emit(ev, {userId}): every live connection but the sender
Broadcast(s, ev, userId) ==
    {Msg(t, ev, None, userId, None) : t \in sockets \ {s}}

Init ==
    /\ opened = 0
    /\ sockets = {}
    /\ currentUserId = [s \in Sockets |-> Null]
    /\ activeUsers = [u \in {} |-> {}]
    /\ activeCalls = [c \in {} |-> {}]
    /\ timers = <<>>
    /\ awaiting = {}
    /\ out = {}
    /\ offlineSent = [u \in UserIds |-> 0]
    /\ lastPresence = [u \in UserIds |-> None]
    /\ socket = TRUE
    /\ callStatus = "idle"
    /\ incomingCall = [callId |-> Null, callerId |-> Null]
    /\ callTimeouts = {}
    /\ emitted = {}
    /\ alerted = None

\* io.on('connection'): a new socket with a fresh id
Connect ==
    /\ opened < MaxSockets
    /\ opened' = opened + 1
    /\ sockets' = sockets \cup {opened + 1}
    /\ out' = {}
    /\ UNCHANGED <<currentUserId, activeUsers, activeCalls, timers, awaiting, offlineSent,
                   lastPresence, client>>

\* ------------------------------------------------------------- disconnect
\* if (currentUserId) { const userSockets = activeUsers.get(currentUserId);
\* if (userSockets) {
Registered(users, x) ==
    currentUserId[x] # Null /\ currentUserId[x] \in DOMAIN users

\* socket.on('disconnect'), registry part: the socket leaves the set of the
\* user its closure names, when that user still has an entry
DisconnectUsers(users, x) ==
    IF Registered(users, x)
    THEN [users EXCEPT ![currentUserId[x]] = @ \ {x}]
    ELSE users

\* socket.on('disconnect'), timer part: setTimeout(..., 2000) under the same
\* test.  No handler of a closed socket runs again, so the currentUserId the
\* callback will read is the one of this moment; the timer carries it.
DisconnectTimers(users, tms, x) ==
    IF Registered(users, x)
    THEN Append(tms, [sock |-> x, userId |-> currentUserId[x], swept |-> FALSE,
                      reRegistered |-> FALSE])
    ELSE tms

\* history: a register of userId is noted on the timers of userId already set
NoteRegister(tms, userId) ==
    [i \in 1..Len(tms) |->
        IF tms[i].userId = userId THEN [tms[i] EXCEPT !.reRegistered = TRUE] ELSE tms[i]]

\* oldSockets.forEach(... oldSocket.disconnect(true) ...): each evicted socket's
\* disconnect handler runs inside the register handler
RECURSIVE EvictUsers(_, _)
EvictUsers(users, olds) ==
    IF olds = {} THEN users
    ELSE LET x == CHOOSE y \in olds : \A z \in olds : y <= z
         IN EvictUsers(DisconnectUsers(users, x), olds \ {x})

RECURSIVE EvictTimers(_, _, _)
EvictTimers(users, tms, olds) ==
    IF olds = {} THEN tms
    ELSE LET x == CHOOSE y \in olds : \A z \in olds : y <= z
         IN EvictTimers(DisconnectUsers(users, x), DisconnectTimers(users, tms, x),
                        olds \ {x})

\* the sockets register closes: the live handles stored for userId, but its own
OldSockets(s, userId) == Live(SocketsOf(activeUsers, userId)) \ {s}

\* Step 3 of register: create the entry when missing, add socket.id
StoreSocket(users, userId, s) ==
    MapSet(users, userId, SocketsOf(users, userId) \cup {s})

\* what Steps 2 and 3 of register leave in activeUsers
RegisterUsers(s, userId) ==
    StoreSocket(EvictUsers(activeUsers, OldSockets(s, userId)), userId, s)

\* socket.on('register') up to the await
Register(s, userId) ==
    /\ s \in sockets
    /\ Cardinality(awaiting) < MaxAwaiting
    /\ LET olds == OldSockets(s, userId)
       IN /\ sockets' = sockets \ olds
          /\ currentUserId' = [x \in Sockets |-> IF x = s THEN userId
                                                 ELSE IF x \in olds THEN Null
                                                 ELSE currentUserId[x]]
          /\ activeUsers' = RegisterUsers(s, userId)
          /\ timers' = EvictTimers(activeUsers, NoteRegister(timers, userId), olds)
    /\ awaiting' = awaiting \cup {<<s, userId, SocketsOf(activeUsers, userId) # {}>>}
    /\ out' = {}
    /\ offlineSent' = [offlineSent EXCEPT ![userId] = 0]
    /\ UNCHANGED <<opened, activeCalls, lastPresence, client>>

\* socket.broadcast.emit('user-online', { userId, username })
RegisterOut(s, userId) == Broadcast(s, "user-online", userId)

\* socket.on('register') after the await: the user-online broadcast
RegisterDone(s, userId) ==
    /\ \E a \in awaiting : a[1] = s /\ a[2] = userId
    /\ awaiting' = {a \in awaiting : ~(a[1] = s /\ a[2] = userId)}
    /\ out' = RegisterOut(s, userId)
    /\ lastPresence' = [lastPresence EXCEPT ![userId] = "user-online"]
    /\ UNCHANGED <<opened, sockets, currentUserId, activeUsers, activeCalls, timers,
                   offlineSent, client>>

\* the transport of a live connection closes: socket.on('disconnect')
Disconnect(s) ==
    /\ s \in sockets
    /\ sockets' = sockets \ {s}
    /\ currentUserId' = [currentUserId EXCEPT ![s] = Null]
    /\ activeUsers' = DisconnectUsers(activeUsers, s)
    /\ timers' = DisconnectTimers(activeUsers, timers, s)
    /\ out' = {}
    /\ UNCHANGED <<opened, activeCalls, awaiting, offlineSent, lastPresence, client>>

\* ------------------------------------------------------------ grace timer
\* NoSocketsLeft with the size of the set left untested
NoEntry(users, userId) == userId \notin DOMAIN users

\* !updatedUserSockets || updatedUserSockets.size === 0
NoSocketsLeft(users, userId) == SocketsOf(users, userId) = {}

\* CallsOf with the teardown kept to the calls that were accepted
CallsOfActive(calls, userId) ==
    {c \in DOMAIN calls : Includes(calls[c], userId) /\ calls[c].status = "active"}

\* CallsOf with the test of the participants left out
CallsOfAnyone(calls, userId) == DOMAIN calls

\* the calls the timer ends: every record naming the user
CallsOf(calls, userId) == {c \in DOMAIN calls : Includes(calls[c], userId)}

\* call-ended to the live sockets of the other participant of each ended call
EndedNotices(users, calls, userId) ==
    {Msg(p[2], "call-ended", p[1], None, "user-disconnected") :
        p \in {q \in CallsOf(calls, userId) \X sockets :
                  q[2] \in SocketsOf(users, OtherParticipant(calls[q[1]], userId))}}

\* GraceUsers with the entry of the user kept
GraceUsersKept(tm) == activeUsers

\* what the callback of timer tm leaves in activeUsers and activeCalls, and
\* what it emits
GraceUsers(tm) ==
    IF NoSocketsLeft(activeUsers, tm.userId)
    THEN MapDelete(activeUsers, {tm.userId})
    ELSE activeUsers

\* GraceCalls with the teardown made outside the test of the user's sockets
GraceCallsAlways(tm) == MapDelete(activeCalls, CallsOf(activeCalls, tm.userId))

GraceCalls(tm) ==
    IF NoSocketsLeft(activeUsers, tm.userId)
    THEN MapDelete(activeCalls, CallsOf(activeCalls, tm.userId))
    ELSE activeCalls

\* GraceOut with the announcement made outside the test of the user's sockets
GraceOutUntested(tm) ==
    Broadcast(tm.sock, "user-offline", tm.userId)
       \cup EndedNotices(GraceUsers(tm), activeCalls, tm.userId)

GraceOut(tm) ==
    IF NoSocketsLeft(activeUsers, tm.userId)
    THEN Broadcast(tm.sock, "user-offline", tm.userId)
           \cup EndedNotices(GraceUsers(tm), activeCalls, tm.userId)
    ELSE {}

\* the callback of setTimeout in the disconnect handler; timers of one delay
\* fire in the order they were set
GraceTimer ==
    /\ timers # <<>>
    /\ activeUsers' = GraceUsers(Head(timers))
    /\ activeCalls' = GraceCalls(Head(timers))
    /\ out' = GraceOut(Head(timers))
    /\ offlineSent' =
          IF NoSocketsLeft(activeUsers, Head(timers).userId)
          THEN [offlineSent EXCEPT ![Head(timers).userId] =
                                       IF @ < MaxCount THEN @ + 1 ELSE @]
          ELSE offlineSent
    /\ lastPresence' =
          IF NoSocketsLeft(activeUsers, Head(timers).userId)
          THEN [lastPresence EXCEPT ![Head(timers).userId] = "user-offline"]
          ELSE lastPresence
    /\ timers' = Tail(timers)
    /\ UNCHANGED <<opened, sockets, currentUserId, awaiting, client>>

\* ------------------------------------------------------------ call-request
\* CalleeBusy with the test made on the callee slot of the record alone
CalleeBusyAsCallee(calls, calleeId) ==
    \E c \in DOMAIN calls : calls[c].participants[2] = calleeId /\ calls[c].status = "active"

\* Step 4 of call-request: some record naming the callee has status active
CalleeBusy(calls, calleeId) ==
    \E c \in DOMAIN calls : Includes(calls[c], calleeId) /\ calls[c].status = "active"

\* RequestVerdictIn without Step 2
RequestVerdictNoSelf(calls, callId, calleeId, callerId) ==
    IF Falsy(callId) \/ Falsy(calleeId) \/ Falsy(callerId) THEN "invalid-parameters"
    ELSE IF NoSocketsLeft(activeUsers, calleeId) THEN "user-offline"
    ELSE IF CalleeBusy(calls, calleeId) THEN "user-busy"
    ELSE "ok"

\* RequestVerdictIn with Step 2 made before Step 1
RequestVerdictSelfFirst(calls, callId, calleeId, callerId) ==
    IF callerId = calleeId THEN "self-call"
    ELSE IF Falsy(callId) \/ Falsy(calleeId) \/ Falsy(callerId) THEN "invalid-parameters"
    ELSE IF NoSocketsLeft(activeUsers, calleeId) THEN "user-offline"
    ELSE IF CalleeBusy(calls, calleeId) THEN "user-busy"
    ELSE "ok"

\* RequestVerdictIn with Step 3 testing only that the callee has an entry
RequestVerdictByEntry(calls, callId, calleeId, callerId) ==
    IF Falsy(callId) \/ Falsy(calleeId) \/ Falsy(callerId) THEN "invalid-parameters"
    ELSE IF callerId = calleeId THEN "self-call"
    ELSE IF calleeId \notin DOMAIN activeUsers THEN "user-offline"
    ELSE IF CalleeBusy(calls, calleeId) THEN "user-busy"
    ELSE "ok"

\* RequestVerdictIn without Step 1
RequestVerdictUnvalidated(calls, callId, calleeId, callerId) ==
    IF callerId = calleeId THEN "self-call"
    ELSE IF NoSocketsLeft(activeUsers, calleeId) THEN "user-offline"
    ELSE IF CalleeBusy(calls, calleeId) THEN "user-busy"
    ELSE "ok"

\* the validations of call-request in the order the handler makes them, the
\* call table being calls
RequestVerdictIn(calls, callId, calleeId, callerId) ==
    IF Falsy(callId) \/ Falsy(calleeId) \/ Falsy(callerId) THEN "invalid-parameters"
    ELSE IF callerId = calleeId THEN "self-call"
    ELSE IF NoSocketsLeft(activeUsers, calleeId) THEN "user-offline"
    ELSE IF CalleeBusy(calls, calleeId) THEN "user-busy"
    ELSE "ok"

RequestVerdict(callId, calleeId, callerId) ==
    RequestVerdictIn(activeCalls, callId, calleeId, callerId)

\* StoreCall with the participants stored callee first
StoreCallCalleeFirst(calls, callId, callerId, calleeId) ==
    MapSet(calls, callId, [participants |-> <<calleeId, callerId>>,
                           status |-> "pending", age |-> 0])

\* Step 5 of call-request: activeCalls.set(callId, {...})
StoreCall(calls, callId, callerId, calleeId) ==
    MapSet(calls, callId, [participants |-> <<callerId, calleeId>>,
                           status |-> "pending", age |-> 0])

\* what call-request makes of the call table calls
RequestCallsIn(calls, callId, calleeId, callerId) ==
    IF RequestVerdictIn(calls, callId, calleeId, callerId) = "ok"
    THEN StoreCall(calls, callId, callerId, calleeId)
    ELSE calls

\* what call-request leaves in activeCalls
RequestCalls(callId, calleeId, callerId) ==
    RequestCallsIn(activeCalls, callId, calleeId, callerId)

\* what call-request emits, s being the socket of the handler
RequestOut(s, callId, calleeId, callerId) ==
    LET verdict == RequestVerdict(callId, calleeId, callerId)
    IN IF verdict \in {"invalid-parameters", "self-call"}
       THEN {Msg(s, "call-failed", None, None, verdict)}
       ELSE IF verdict \in {"user-offline", "user-busy"}
       THEN {Msg(s, "call-not-available", None, calleeId, verdict)}
       ELSE {Msg(t, "incoming-call", callId, callerId, None) :
                t \in Live(activeUsers[calleeId])}
              \cup {Msg(s, "call-ringing", callId, None, None)}

\* socket.on('call-request')
CallRequest(s, callId, calleeId, callerId) ==
    /\ s \in sockets
    /\ activeCalls' = RequestCalls(callId, calleeId, callerId)
    /\ out' = RequestOut(s, callId, calleeId, callerId)
    /\ UNCHANGED <<opened, sockets, currentUserId, activeUsers, timers, awaiting,
                   offlineSent, lastPresence, client>>

\* ----------------------------------------------------------- call-accepted
\* AcceptVerdict without Step 2
AcceptVerdictAnyStatus(calls, callId) ==
    IF callId \notin DOMAIN calls THEN "call-not-found" ELSE "ok"

\* Steps 1 and 2 of call-accepted
AcceptVerdict(calls, callId) ==
    IF callId \notin DOMAIN calls THEN "call-not-found"
    ELSE IF calls[callId].status # "pending" THEN "invalid-state"
    ELSE "ok"

\* Step 4 of call-accepted: const callerSocketIds = activeUsers.get(callerId),
\* callerId being the field of the message
AcceptRecipients(users, callerId) == SocketsOf(users, callerId)

\* what call-accepted makes of the call table calls
AcceptCallsIn(calls, callId, calleeId, callerId) ==
    IF AcceptVerdict(calls, callId) # "ok" THEN calls
    ELSE IF AcceptRecipients(activeUsers, callerId) # {}
    THEN [calls EXCEPT ![callId].status = "active"]
    ELSE MapDelete(calls, {callId})

\* what call-accepted leaves in activeCalls
AcceptCalls(callId, calleeId, callerId) ==
    AcceptCallsIn(activeCalls, callId, calleeId, callerId)

\* what call-accepted emits, s being the socket of the handler
AcceptOut(s, callId, calleeId, callerId) ==
    LET verdict == AcceptVerdict(activeCalls, callId)
        callerSocketIds == AcceptRecipients(activeUsers, callerId)
    IN IF verdict # "ok"
       THEN {Msg(s, "call-failed", None, None, verdict)}
       ELSE IF callerSocketIds # {}
       THEN {Msg(t, "call-accepted", callId, calleeId, None) : t \in Live(callerSocketIds)}
       ELSE {Msg(s, "call-failed", None, None, "caller-unavailable")}

\* socket.on('call-accepted')
CallAccepted(s, callId, calleeId, callerId) ==
    /\ s \in sockets
    /\ activeCalls' = AcceptCalls(callId, calleeId, callerId)
    /\ out' = AcceptOut(s, callId, calleeId, callerId)
    /\ UNCHANGED <<opened, sockets, currentUserId, activeUsers, timers, awaiting,
                   offlineSent, lastPresence, client>>

\* ----------------------------------------------------------- call-rejected
\* what call-rejected makes of the call table calls
RejectCallsIn(calls, callId, calleeId, callerId) ==
    IF callId \notin DOMAIN calls THEN calls
    ELSE MapDelete(calls, {callId})

\* what call-rejected leaves in activeCalls
RejectCalls(callId, calleeId, callerId) ==
    RejectCallsIn(activeCalls, callId, calleeId, callerId)

\* RejectOut without Step 1
RejectOutUnchecked(s, callId, calleeId, callerId) ==
    {Msg(t, "call-rejected", callId, calleeId, None) :
        t \in Live(SocketsOf(activeUsers, callerId))}

\* what call-rejected emits
RejectOut(s, callId, calleeId, callerId) ==
    IF callId \notin DOMAIN activeCalls THEN {}
    ELSE {Msg(t, "call-rejected", callId, calleeId, None) :
             t \in Live(SocketsOf(activeUsers, callerId))}

\* socket.on('call-rejected')
CallRejected(s, callId, calleeId, callerId) ==
    /\ s \in sockets
    /\ activeCalls' = RejectCalls(callId, calleeId, callerId)
    /\ out' = RejectOut(s, callId, calleeId, callerId)
    /\ UNCHANGED <<opened, sockets, currentUserId, activeUsers, timers, awaiting,
                   offlineSent, lastPresence, client>>

\* -------------------------------------------------------------- call-ended
\* The chat client ends a call with ws.emit('call-ended', {callId, reason}).
\* The connection handler registers listeners for register, call-request,
\* call-accepted, call-rejected and disconnect, and none for call-ended:
\* socket.io drops an event that has no listener.

\* EndOut with the event passed on to the other connections
EndOutRelayed(s, callId) ==
    {Msg(t, "call-ended", callId, None, "user-ended") : t \in sockets \ {s}}

\* what a call-ended sent to the hub emits, and what it leaves in activeCalls
EndOut(s, callId) == {}

EndCalls(callId) == activeCalls

\* a call-ended message arrives at the hub
CallEnded(s, callId) ==
    /\ s \in sockets
    /\ activeCalls' = EndCalls(callId)
    /\ out' = EndOut(s, callId)
    /\ UNCHANGED <<opened, sockets, currentUserId, activeUsers, timers, awaiting,
                   offlineSent, lastPresence, client>>

\* ------------------------------------------------------------------ reaper
\* The clock is kept as the age now - call.createdAt of each record, in steps
\* of the reaper's period: Date.now() is only ever read to stamp a record and
\* to take this difference.
Elapsed(call, ms) ==
    [call EXCEPT !.age = IF @ + ms > AgeCap THEN AgeCap ELSE @ + ms]

Older(call) == Elapsed(call, ReapInterval)

\* the call table one period later
Aged(calls) == [c \in DOMAIN calls |-> Older(calls[c])]

\* the call table ms milliseconds later
Later(calls, ms) == [c \in DOMAIN calls |-> Elapsed(calls[c], ms)]

\* Stale without the test of the status
StaleAnyStatus(call) == call.age > CallTimeout

\* Stale with the timeout itself counted as too old
StaleAtTimeout(call) == call.status = "pending" /\ call.age >= CallTimeout

\* call.status === 'pending' && now - call.createdAt > 30000
Stale(call) == call.status = "pending" /\ call.age > CallTimeout

StaleCalls(calls) == {c \in DOMAIN calls : Stale(calls[c])}

\* what the sweep made one period from now leaves in activeCalls
ReaperCalls == MapDelete(Aged(activeCalls), StaleCalls(Aged(activeCalls)))

\* what it emits: call-failed{timeout} to the live sockets of the first
\* participant of each stale call
ReaperOut ==
    {Msg(x, "call-failed", None, None, "timeout") :
        x \in {y \in sockets : \E c \in StaleCalls(Aged(activeCalls)) :
                   y \in SocketsOf(activeUsers, activeCalls[c].participants[1])}}

\* the setInterval callback, with the passing of one period before it.  A
\* grace timer outlives at most one sweep, its delay being the shorter.
Reaper ==
    /\ \A i \in 1..Len(timers) : ~timers[i].swept \/ GracePeriod >= ReapInterval
    /\ activeCalls' = ReaperCalls
    /\ out' = ReaperOut
    /\ timers' = [i \in 1..Len(timers) |-> [timers[i] EXCEPT !.swept = TRUE]]
    /\ UNCHANGED <<opened, sockets, currentUserId, activeUsers, awaiting, offlineSent,
                   lastPresence, client>>

\* ------------------------------------------------------------- chat client
\* The call state of ChatComponent (src/client/src/Chat.jsx) for the user
\* MyUserId: the listeners of its socket, the handlers of its buttons and the
\* timeouts they set.  A setter of useState is taken to act at once.
MyUserId == "u1"
Contacts == {Null} \cup UserIds        \* selectedUserId: null or a contact
NoCall == [callId |-> Null, callerId |-> Null]     \* incomingCall when it is null

\* socket.emit(ev, {callId, calleeId, callerId})
Sent(ev, callId, calleeId, callerId) ==
    [ev |-> ev, callId |-> callId, calleeId |-> calleeId, callerId |-> callerId]

\* the first three tests of handleVideoCall: a contact is selected and the
\* clients are initialized, it is not the user itself, and it is online
VideoCallRefusal(hasSocket, selectedUserId, online) ==
    IF selectedUserId = Null \/ ~hasSocket THEN "select-contact"
    ELSE IF selectedUserId = MyUserId THEN "self-call"
    ELSE IF ~online THEN "offline"
    ELSE None

\* VideoCallAlert without the test of callStatus
VideoCallAlertUntested(hasSocket, status, selectedUserId, online) ==
    VideoCallRefusal(hasSocket, selectedUserId, online)

\* the alert of handleVideoCall, None when it goes on to place the call
VideoCallAlert(hasSocket, status, selectedUserId, online) ==
    IF VideoCallRefusal(hasSocket, selectedUserId, online) # None
    THEN VideoCallRefusal(hasSocket, selectedUserId, online)
    ELSE IF status # "idle" THEN "call-in-progress"
    ELSE None

\* what handleVideoCall leaves in callStatus and what it emits
VideoCallStatus(hasSocket, status, selectedUserId, online) ==
    IF VideoCallAlert(hasSocket, status, selectedUserId, online) = None
    THEN "calling" ELSE status

VideoCallEmits(hasSocket, status, callId, selectedUserId, online) ==
    IF VideoCallAlert(hasSocket, status, selectedUserId, online) = None
    THEN {Sent("call-request", callId, selectedUserId, MyUserId)} ELSE {}

\* handleVideoCall, callId being call_${Date.now()}_... ; the button that
\* calls it is rendered disabled while callStatus is not idle, and the
\* handler makes the test again
HandleVideoCall(callId, selectedUserId, online) ==
    /\ callStatus' = VideoCallStatus(socket, callStatus, selectedUserId, online)
    /\ emitted' = VideoCallEmits(socket, callStatus, callId, selectedUserId, online)
    /\ alerted' = VideoCallAlert(socket, callStatus, selectedUserId, online)
    /\ callTimeouts' =
          IF VideoCallAlert(socket, callStatus, selectedUserId, online) = None
          THEN callTimeouts \cup {[callId |-> callId, calleeId |-> selectedUserId,
                                   callStatus |-> callStatus]}
          ELSE callTimeouts
    /\ UNCHANGED <<socket, incomingCall, hub>>

\* the callback of the setTimeout of handleVideoCall, 30 s later: it tests
\* the callStatus of the render that placed the call
CallTimedOut(tm) ==
    /\ tm \in callTimeouts
    /\ callTimeouts' = callTimeouts \ {tm}
    /\ IF tm.callStatus \in {"calling", "ringing"}
       THEN /\ emitted' = {Sent("call-rejected", tm.callId, tm.calleeId, MyUserId)}
            /\ callStatus' = "idle"
            /\ alerted' = "timed-out"
       ELSE /\ emitted' = {}
            /\ callStatus' = callStatus
            /\ alerted' = None
    /\ UNCHANGED <<socket, incomingCall, hub>>

\* what the listener of the socket for event ev leaves in callStatus
ListenerStatus(ev) ==
    CASE ev = "incoming-call" -> "incoming"
      [] ev = "call-ringing" -> "ringing"
      [] ev = "call-accepted" -> "accepted"
      [] ev \in {"call-rejected", "call-failed", "call-not-available", "call-ended"}
           -> "idle"

HubEvents == {"incoming-call", "call-ringing", "call-accepted", "call-rejected",
              "call-failed", "call-not-available", "call-ended"}

\* socketInstance.on(ev, ...) for the seven call events
Listener(ev, callId, callerId) ==
    /\ socket
    /\ callStatus' = ListenerStatus(ev)
    /\ incomingCall' = IF ev = "incoming-call"
                       THEN [callId |-> callId, callerId |-> callerId]
                       ELSE incomingCall
    /\ emitted' = {}
    /\ alerted' = IF ev \in {"call-rejected", "call-failed", "call-not-available",
                              "call-ended"} THEN ev ELSE None
    /\ UNCHANGED <<socket, callTimeouts, hub>>

\* handleAcceptCall, from the dialog shown while callStatus is incoming
HandleAcceptCall ==
    /\ callStatus = "incoming"
    /\ incomingCall # NoCall /\ socket
    /\ emitted' = {Sent("call-accepted", incomingCall.callId, MyUserId,
                         incomingCall.callerId)}
    /\ callStatus' = "accepted"
    /\ incomingCall' = NoCall
    /\ alerted' = None
    /\ UNCHANGED <<socket, callTimeouts, hub>>

\* handleRejectCall, from the dialog or from the timeout of the effect on
\* incomingCall, which calls it while callStatus is incoming
HandleRejectCall ==
    /\ callStatus = "incoming"
    /\ incomingCall # NoCall /\ socket
    /\ emitted' = {Sent("call-rejected", incomingCall.callId, MyUserId,
                         incomingCall.callerId)}
    /\ callStatus' = "idle"
    /\ incomingCall' = NoCall
    /\ alerted' = None
    /\ UNCHANGED <<socket, callTimeouts, hub>>

\* logout(): socket.disconnect(), setSocket(null), setCallStatus("idle")
Logout ==
    /\ socket
    /\ socket' = FALSE
    /\ callStatus' = "idle"
    /\ emitted' = {}
    /\ alerted' = None
    /\ UNCHANGED <<incomingCall, callTimeouts, hub>>

\* --------------------------------------------------------- specification
MsgIds(ids) == ids \cup {Empty}

\* no register handler is suspended at its await
Quiet == awaiting = {}

\* The hub in an environment whose clients name the calls callIds and the
\* callers callerIds.  With once, every client registers once per connection,
\* as the chat client does; without it a connection may send register again,
\* for the same user or another.  With serial, the username lookup of a
\* register returns before the next event is handled; without it any event may
\* be handled while a register waits at its await.
Idle(serial) == serial => Quiet

Env(callIds, callerIds, once, serial) ==
    \/ Idle(serial) /\ Connect
    \/ \E s \in Sockets, u \in UserIds :
          Idle(serial) /\ (once => currentUserId[s] = Null) /\ Register(s, u)
    \/ \E s \in Sockets, u \in UserIds : RegisterDone(s, u)
    \/ \E s \in Sockets : Idle(serial) /\ Disconnect(s)
    \/ \E s \in Sockets, c \in MsgIds(callIds), e \in MsgIds(UserIds),
          r \in MsgIds(callerIds) :
          Idle(serial) /\ CallRequest(s, c, e, r)
    \/ \E s \in Sockets, c \in MsgIds(callIds), e \in UserIds, r \in MsgIds(UserIds) :
          Idle(serial) /\ CallAccepted(s, c, e, r)
    \/ \E s \in Sockets, c \in MsgIds(callIds), e \in UserIds, r \in MsgIds(UserIds) :
          Idle(serial) /\ CallRejected(s, c, e, r)
    \/ \E s \in Sockets, c \in MsgIds(callIds) : Idle(serial) /\ CallEnded(s, c)
    \/ Idle(serial) /\ GraceTimer
    \/ Idle(serial) /\ Reaper

\* two calls between the two users that connect
Next == Env(CallIds, UserIds, TRUE, TRUE)

Spec == Init /\ [][Next]_vars

\* one call, with callers that may name a user who never connects
NextOther == Env({"c1"}, UserIds \cup OtherIds, TRUE, TRUE)

SpecOther == Init /\ [][NextOther]_vars

\* one call, with connections that register more than once
NextAgain == Env({"c1"}, UserIds, FALSE, TRUE)

SpecAgain == Init /\ [][NextAgain]_vars

\* one call, with events handled while a register waits for its lookup
NextRace == Env({"c1"}, UserIds, TRUE, FALSE)

SpecRace == Init /\ [][NextRace]_vars

\* the chat client, with a hub that may send it any call event at any time
NextClient ==
    \/ \E c \in CallIds, u \in Contacts, online \in BOOLEAN : HandleVideoCall(c, u, online)
    \/ \E tm \in callTimeouts : CallTimedOut(tm)
    \/ \E ev \in HubEvents, c \in CallIds, r \in UserIds \ {MyUserId} : Listener(ev, c, r)
    \/ HandleAcceptCall
    \/ HandleRejectCall
    \/ Logout

SpecClient == Init /\ [][NextClient]_vars

\* The event loop runs every callback that is due: the sweep of setInterval,
\* the callback of each setTimeout, the continuation of each await.
SpecFair ==
    /\ Spec
    /\ WF_vars(Quiet /\ Reaper)
    /\ WF_vars(Quiet /\ GraceTimer)
    /\ WF_vars(\E s \in Sockets, u \in UserIds : RegisterDone(s, u))

\* the same of the callbacks of SpecRace, where a timer may fire while a
\* register waits
SpecRaceFair ==
    /\ SpecRace
    /\ WF_vars(Reaper)
    /\ WF_vars(GraceTimer)
    /\ WF_vars(\E s \in Sockets, u \in UserIds : RegisterDone(s, u))

\* ---------------------------------------------------------------- claims
\* The claims about one handler are stated of its result in every reachable
\* state, for every socket it may run on and every message it may be given.
AllIds == UserIds \cup OtherIds
ReqIds == MsgIds(AllIds)
ReqCalls == MsgIds(CallIds)

\* the records of status active that name userId
ActiveCallsOf(userId) ==
    {c \in DOMAIN activeCalls :
        activeCalls[c].status = "active" /\ userId \in
            {activeCalls[c].participants[1], activeCalls[c].participants[2]}}

\* the first participant stored in the record of callId
CallerOf(callId) == activeCalls[callId].participants[1]

\* the live connections registered for userId
Connections(userId) ==
    IF userId \in DOMAIN activeUsers THEN activeUsers[userId] \cap sockets ELSE {}

\* C1: in every reachable state each user id is a participant of at most one
\* record of status active.
C1_OneActiveCallPerUser ==
    \A u \in AllIds : Cardinality(ActiveCallsOf(u)) <= 1

\* C2 as stated: while an active record names calleeId, every call-request
\* for calleeId is answered to its sender with call-not-available{user-busy}
\* and leaves the call table as it was.
C2_EveryRequestToBusyCallee ==
    \A s \in sockets, c \in ReqCalls, e \in ReqIds, r \in ReqIds :
        ActiveCallsOf(e) # {}
        => /\ RequestOut(s, c, e, r) = {Msg(s, "call-not-available", None, e, "user-busy")}
           /\ RequestCalls(c, e, r) = activeCalls

\* C2 amended: while an active record names calleeId, no call-request for
\* calleeId changes the call table, and every such request that names a call,
\* a caller other than the callee and a callee with a registered connection
\* is answered to its sender with call-not-available{user-busy}.
C2_BusyCalleeRefused ==
    \A s \in sockets, c \in ReqCalls, e \in ReqIds, r \in ReqIds :
        ActiveCallsOf(e) # {}
        => /\ RequestCalls(c, e, r) = activeCalls
           /\ (c # Empty /\ r # Empty /\ r # e
               /\ e \in DOMAIN activeUsers /\ activeUsers[e] # {})
              => RequestOut(s, c, e, r)
                    = {Msg(s, "call-not-available", None, e, "user-busy")}

\* a busy callee has just been refused
C2_Witness ==
    \E m \in out : /\ m.ev = "call-not-available" /\ m.reason = "user-busy"
                   /\ ActiveCallsOf(m.userId) # {}

\* C3: a call-request whose callId is already a key of the call table leaves
\* the record stored under it unchanged.
C3_ExistingRecordKept ==
    \A c \in DOMAIN activeCalls, e \in ReqIds, r \in ReqIds :
        /\ c \in DOMAIN RequestCalls(c, e, r)
        /\ RequestCalls(c, e, r)[c] = activeCalls[c]

\* C4: call-accepted for a callId with no record, or with a record that is
\* not pending, is answered to its sender with call-failed (call-not-found,
\* invalid-state), delivers no call-accepted and leaves the call table as it
\* was.
C4_AcceptNeedsPending ==
    \A s \in sockets, c \in ReqCalls, e \in ReqIds, r \in ReqIds :
        (c \notin DOMAIN activeCalls \/ activeCalls[c].status # "pending")
        => /\ AcceptCalls(c, e, r) = activeCalls
           /\ AcceptOut(s, c, e, r)
                = {Msg(s, "call-failed", None, None,
                       IF c \in DOMAIN activeCalls THEN "invalid-state"
                       ELSE "call-not-found")}

\* an accept of a call that is already active has just been refused
C4_Witness ==
    /\ \E m \in out : m.ev = "call-failed" /\ m.reason = "invalid-state"
    /\ \E c \in DOMAIN activeCalls : activeCalls[c].status = "active"

\* C5: call-accepted for a pending record whose caller has a live connection
\* makes the record active and delivers call-accepted{callId, calleeId} to
\* every live connection of that caller, whatever callerId the message names.
C5_AcceptReachesCaller ==
    \A s \in sockets, c \in DOMAIN activeCalls, e \in ReqIds, r \in ReqIds :
        (activeCalls[c].status = "pending" /\ Connections(CallerOf(c)) # {})
        => /\ c \in DOMAIN AcceptCalls(c, e, r)
           /\ AcceptCalls(c, e, r)[c].status = "active"
           /\ AcceptOut(s, c, e, r)
                = {Msg(t, "call-accepted", c, e, None) : t \in Connections(CallerOf(c))}

\* C6: call-accepted for a pending record whose caller has no live connection
\* is answered to its sender with call-failed{caller-unavailable} and removes
\* the record in the same step.
C6_AcceptWithoutCaller ==
    \A s \in sockets, c \in DOMAIN activeCalls, e \in ReqIds, r \in ReqIds :
        (activeCalls[c].status = "pending" /\ Connections(CallerOf(c)) = {})
        => /\ c \notin DOMAIN AcceptCalls(c, e, r)
           /\ AcceptOut(s, c, e, r)
                = {Msg(s, "call-failed", None, None, "caller-unavailable")}

\* the pending records the next sweep finds older than the timeout
Expiring ==
    {c \in DOMAIN activeCalls :
        activeCalls[c].status = "pending" /\ activeCalls[c].age + ReapInterval > CallTimeout}

\* C7: whichever of the sweep, call-accepted and call-rejected runs first on a
\* callId decides.  The sweep removes every pending record older than the
\* timeout and sends call-failed{timeout} to the live connections of its
\* caller; it keeps every other record, with its participants and status, and
\* sends a timeout to nobody else.  For a callId with no record, call-accepted
\* is answered call-not-found and call-rejected emits nothing, both leaving
\* the call table as it was.
C7_FirstStepDecides ==
    /\ DOMAIN ReaperCalls = DOMAIN activeCalls \ Expiring
    /\ \A c \in DOMAIN ReaperCalls :
          /\ ReaperCalls[c].participants = activeCalls[c].participants
          /\ ReaperCalls[c].status = activeCalls[c].status
    /\ ReaperOut = {Msg(t, "call-failed", None, None, "timeout") :
                       t \in UNION {Connections(CallerOf(c)) : c \in Expiring}}
    /\ \A s \in sockets, c \in ReqCalls \ DOMAIN activeCalls, e \in ReqIds, r \in ReqIds :
          /\ AcceptCalls(c, e, r) = activeCalls
          /\ AcceptOut(s, c, e, r) = {Msg(s, "call-failed", None, None, "call-not-found")}
          /\ RejectCalls(c, e, r) = activeCalls
          /\ RejectOut(s, c, e, r) = {}

\* a sweep has just removed a stale record and told its caller, while an
\* accepted call stays in the table
C7_Witness ==
    /\ \E m \in out : m.ev = "call-failed" /\ m.reason = "timeout"
    /\ \E c \in CallIds : c \notin DOMAIN activeCalls
    /\ \E c \in DOMAIN activeCalls :
          activeCalls[c].status = "active" /\ activeCalls[c].age > CallTimeout

\* C8: under fair scheduling of the sweep, every record that is pending
\* eventually leaves that status: it becomes active or is removed.
C8_PendingLeaves ==
    \A c \in CallIds :
        (c \in DOMAIN activeCalls /\ activeCalls[c].status = "pending")
        ~> (c \notin DOMAIN activeCalls \/ activeCalls[c].status # "pending")

\* the grace timers of userId that have not fired yet
TimersOf(userId) == {i \in 1..Len(timers) : timers[i].userId = userId}

\* C9: once the last connection of a user is unregistered and its grace
\* timers have fired with no new registration, the user is not online and
\* exactly one user-offline was broadcast about it for that departure.
C9_OneOfflinePerDeparture ==
    \A u \in UserIds :
        /\ offlineSent[u] <= 1
        /\ (Connections(u) = {} /\ TimersOf(u) = {})
           => u \notin DOMAIN activeUsers

\* C10: a grace timer that fires for a user who has a registered connection
\* again announces nothing, and changes neither the registry nor the call
\* table; and user-offline is only ever announced about a user who is left
\* without a registry entry.
C10_FlapSuppressed ==
    /\ \A m \in out : m.ev = "user-offline" => m.userId \notin DOMAIN activeUsers
    /\ (timers # <<>> /\ Connections(Head(timers).userId) # {})
       => /\ GraceOut(Head(timers)) = {}
          /\ GraceUsers(Head(timers)) = activeUsers
          /\ GraceCalls(Head(timers)) = activeCalls

\* the only connection of a user dropped and the user registered again before
\* the timer of that drop fired, while a record names the user
C10_Witness ==
    /\ timers # <<>>
    /\ Connections(Head(timers).userId) # {}
    /\ \E c \in DOMAIN activeCalls :
          Head(timers).userId \in {activeCalls[c].participants[1],
                                   activeCalls[c].participants[2]}

\* C11: a grace timer whose user has registered again since the disconnect
\* that set it is cancelled: when it fires it announces no user-offline, ends
\* no call and removes no record, although the user may have lost its
\* connection again in the meantime.
C11_RegisterCancelsTimer ==
    (timers # <<>> /\ Head(timers).reRegistered)
    => /\ \A m \in GraceOut(Head(timers)) : m.ev \notin {"user-offline", "call-ended"}
       /\ GraceCalls(Head(timers)) = activeCalls

\* the records that name userId, and the participant of a record other than
\* userId
RecordsNaming(userId) ==
    {c \in DOMAIN activeCalls :
        userId \in {activeCalls[c].participants[1], activeCalls[c].participants[2]}}

PartnerOf(callId, userId) ==
    IF activeCalls[callId].participants[1] = userId
    THEN activeCalls[callId].participants[2]
    ELSE activeCalls[callId].participants[1]

\* the second participant stored in the record of callId
CalleeOf(callId) == activeCalls[callId].participants[2]

\* C12: the accept of a pending call by its callee delivers
\* call-accepted{callId, calleeId} to the connected caller and makes the record
\* active; and a grace timer that fires for a user without registered
\* connection removes every record naming that user, pending or active, keeps
\* every other record as it is, and delivers call-ended{callId,
\* user-disconnected} to every live connection of the other participant.
C12_OfflineEndsCalls ==
    /\ \A s \in sockets, c \in DOMAIN activeCalls :
          (activeCalls[c].status = "pending" /\ Connections(CallerOf(c)) # {})
          => /\ AcceptOut(s, c, CalleeOf(c), CallerOf(c))
                  = {Msg(t, "call-accepted", c, CalleeOf(c), None) :
                        t \in Connections(CallerOf(c))}
             /\ AcceptCalls(c, CalleeOf(c), CallerOf(c))
                  = [activeCalls EXCEPT ![c].status = "active"]
    /\ (timers # <<>> /\ (Head(timers).userId \notin DOMAIN activeUsers
                           \/ activeUsers[Head(timers).userId] = {}))
       => LET u == Head(timers).userId
          IN /\ DOMAIN GraceCalls(Head(timers)) = DOMAIN activeCalls \ RecordsNaming(u)
             /\ \A c \in DOMAIN GraceCalls(Head(timers)) :
                   GraceCalls(Head(timers))[c] = activeCalls[c]
             /\ \A c \in RecordsNaming(u) : \A t \in Connections(PartnerOf(c, u)) :
                   Msg(t, "call-ended", c, None, "user-disconnected")
                      \in GraceOut(Head(timers))

\* a user has just been announced offline and the other participant of its
\* accepted call told that the call ended, the record being gone
C12_Witness ==
    /\ \E m \in out : m.ev = "user-offline"
    /\ \E m \in out : m.ev = "call-ended" /\ m.callId \notin DOMAIN activeCalls
    /\ \E u \in UserIds : Connections(u) # {} /\ u \in DOMAIN activeUsers

\* C13: right after the registry update of a register of userId by a
\* connection, the set stored for userId is that connection alone, and every
\* other handle that was stored for userId is closed.
C13_RegisterLeavesOneHandle ==
    \A s \in sockets, u \in UserIds :
        /\ RegisterUsers(s, u)[u] = {s}
        /\ \A x \in Connections(u) \ {s} : x \in OldSockets(s, u)

\* C14: the user-online broadcast of a register reaches the other connections
\* if and only if the user had no registered connection when the register
\* started; a register for a user that had one announces nothing.
C14_OnlineOnlyOnFirstConnection ==
    \A a \in awaiting :
        RegisterOut(a[1], a[2])
           = IF a[3] THEN {}
             ELSE {Msg(t, "user-online", None, a[2], None) : t \in sockets \ {a[1]}}

\* C15: no connection is stored under two users of the registry.
C15_HandleUnderOneUser ==
    \A s \in Sockets :
        Cardinality({u \in DOMAIN activeUsers : s \in activeUsers[u]}) <= 1

\* userId has no registered connection: no entry, or an entry with no socket
NotRegistered(userId) ==
    userId \notin DOMAIN activeUsers \/ activeUsers[userId] = {}

\* C16 as stated: every call-request whose callerId equals its calleeId is
\* answered to its sender with call-failed{self-call} and leaves the call
\* table as it was.
C16_EverySelfCall ==
    \A s \in sockets, c \in ReqCalls, e \in ReqIds :
        /\ RequestOut(s, c, e, e) = {Msg(s, "call-failed", None, None, "self-call")}
        /\ RequestCalls(c, e, e) = activeCalls

\* C16 amended: no call-request whose callerId equals its calleeId changes
\* the call table, whatever the registry and the table hold, and the request
\* is answered to its sender with call-failed{self-call} when its callId and
\* the id it names twice are not empty.
C16_SelfCallRefused ==
    \A s \in sockets, c \in ReqCalls, e \in ReqIds :
        /\ RequestCalls(c, e, e) = activeCalls
        /\ (c # Empty /\ e # Empty)
           => RequestOut(s, c, e, e) = {Msg(s, "call-failed", None, None, "self-call")}

\* a self-call has just been refused while the call table holds a record
C16_Witness ==
    /\ \E m \in out : m.ev = "call-failed" /\ m.reason = "self-call"
    /\ DOMAIN activeCalls # {}
    /\ DOMAIN activeUsers # {}

\* C17 as stated: every call-request for a calleeId without registered
\* connection is answered to its sender with call-not-available{calleeId,
\* user-offline} and leaves the call table as it was.
C17_EveryRequestToOfflineCallee ==
    \A s \in sockets, c \in ReqCalls, e \in ReqIds, r \in ReqIds :
        NotRegistered(e)
        => /\ RequestOut(s, c, e, r)
                = {Msg(s, "call-not-available", None, e, "user-offline")}
           /\ RequestCalls(c, e, r) = activeCalls

\* C17 amended: no call-request for a calleeId without registered connection
\* changes the call table or sends incoming-call or call-ringing, and the
\* request is answered to its sender with call-not-available{calleeId,
\* user-offline} when its three ids are not empty and its callerId differs
\* from its calleeId.
C17_OfflineCalleeRefused ==
    \A s \in sockets, c \in ReqCalls, e \in ReqIds, r \in ReqIds :
        NotRegistered(e)
        => /\ RequestCalls(c, e, r) = activeCalls
           /\ \A m \in RequestOut(s, c, e, r) :
                  m.ev \notin {"incoming-call", "call-ringing"}
           /\ (c # Empty /\ e # Empty /\ r # Empty /\ r # e)
              => RequestOut(s, c, e, r)
                    = {Msg(s, "call-not-available", None, e, "user-offline")}

\* a request has just been refused for a callee whose entry is still in the
\* registry, with no socket
C17_Witness ==
    \E m \in out : /\ m.ev = "call-not-available" /\ m.reason = "user-offline"
                   /\ m.userId \in DOMAIN activeUsers
                   /\ activeUsers[m.userId] = {}

\* the answer of call-request to a message with an empty field
InvalidParametersAnswered ==
    \A s \in sockets, c \in ReqCalls, e \in ReqIds, r \in ReqIds :
        (c = Empty \/ e = Empty \/ r = Empty)
        => /\ RequestOut(s, c, e, r)
                = {Msg(s, "call-failed", None, None, "invalid-parameters")}
           /\ RequestCalls(c, e, r) = activeCalls

\* C18: a call-request with an empty callId, callerId or calleeId is answered
\* to its sender with call-failed{invalid-parameters}, also when it is a
\* self-call or names an offline or busy callee, and leaves the call table as
\* it was; and the step that gives this answer changes neither the registry
\* nor the call table.
C18_InvalidParametersFirst ==
    /\ []InvalidParametersAnswered
    /\ [][(\E m \in out' : m.ev = "call-failed" /\ m.reason = "invalid-parameters")
            => (activeUsers' = activeUsers /\ activeCalls' = activeCalls)]_vars

\* a request with an empty field has just been refused while a user is in an
\* accepted call
C18_Witness ==
    /\ \E m \in out : m.ev = "call-failed" /\ m.reason = "invalid-parameters"
    /\ \E u \in UserIds : ActiveCallsOf(u) # {}

\* the four validations of a call-request
Passes(callId, calleeId, callerId) ==
    /\ callId # Empty /\ calleeId # Empty /\ callerId # Empty
    /\ callerId # calleeId
    /\ ~NotRegistered(calleeId)
    /\ ActiveCallsOf(calleeId) = {}

C20_RejectRemovesAndTellsCaller ==
    \A s \in sockets, c \in DOMAIN activeCalls, e \in ReqIds, r \in ReqIds :
        /\ DOMAIN RejectCalls(c, e, r) = DOMAIN activeCalls \ {c}
        /\ \A x \in DOMAIN RejectCalls(c, e, r) : RejectCalls(c, e, r)[x] = activeCalls[x]
        /\ RejectOut(s, c, e, r)
             = {Msg(t, "call-rejected", c, e, None) : t \in Connections(CallerOf(c))}

\* the answer of call-rejected to a callId that has no record
RejectOfNoRecord ==
    \A s \in sockets, c \in ReqCalls \ DOMAIN activeCalls, e \in ReqIds, r \in ReqIds :
        /\ RejectCalls(c, e, r) = activeCalls
        /\ RejectOut(s, c, e, r) = {}

\* C21: call-rejected for a callId with no record changes neither the
\* registry nor the call table and sends nothing, to its sender or to anyone.
C21_RejectOfNoRecordIsSilent ==
    /\ []RejectOfNoRecord
    /\ [][\A s \in sockets, c \in ReqCalls \ DOMAIN activeCalls,
               e \in UserIds, r \in MsgIds(UserIds) :
             CallRejected(s, c, e, r)
             => (out' = {} /\ UNCHANGED <<sockets, currentUserId, activeUsers,
                                         activeCalls, timers, awaiting>>)]_vars

\* a call was rejected and its record removed, so that a second call-rejected
\* for it finds no record, while a caller is connected to be told
C21_Witness ==
    /\ \E m \in out : m.ev = "call-rejected" /\ m.callId \notin DOMAIN activeCalls
    /\ sockets # {}

\* C22: a call-ended sent to the hub by a connection of a participant of a
\* record removes the record and delivers call-ended{callId, user-ended} to
\* every live connection of the other participant.
C22_EndCallRemovesRecord ==
    \A s \in sockets, c \in DOMAIN activeCalls :
        currentUserId[s] \in {CallerOf(c), CalleeOf(c)}
        => /\ c \notin DOMAIN EndCalls(c)
           /\ \A t \in Connections(PartnerOf(c, currentUserId[s])) :
                  Msg(t, "call-ended", c, None, "user-ended") \in EndOut(s, c)

SameButFor(users, other, userId) ==
    \A v \in AllIds \ {userId} :
        /\ v \in DOMAIN users <=> v \in DOMAIN other
        /\ v \in DOMAIN users => users[v] = other[v]

\* what the disconnect of a connection and the firing of a grace timer leave
\* of the entries and records of the other users
CleanupKeepsOthers ==
    /\ \A s \in sockets :
          SameButFor(DisconnectUsers(activeUsers, s), activeUsers, currentUserId[s])
    /\ timers # <<>>
       => /\ SameButFor(GraceUsers(Head(timers)), activeUsers, Head(timers).userId)
          /\ \A c \in DOMAIN activeCalls \ RecordsNaming(Head(timers).userId) :
                /\ c \in DOMAIN GraceCalls(Head(timers))
                /\ GraceCalls(Head(timers))[c] = activeCalls[c]

\* C24: the disconnect of a connection of user U changes no registry entry
\* but U's and no call record; the grace timer that follows changes no
\* registry entry but U's and no record that does not name U.
C24_CleanupScopedToUser ==
    /\ []CleanupKeepsOthers
    /\ [][\A s \in sockets : Disconnect(s) => activeCalls' = activeCalls]_vars

\* a user has just been announced offline while another user is registered
\* and a record that does not name the departed user is in the table
C24_Witness ==
    \E m \in out :
        /\ m.ev = "user-offline"
        /\ \E v \in UserIds \ {m.userId} : Connections(v) # {}
        /\ \E c \in DOMAIN activeCalls : m.userId \notin {CallerOf(c), CalleeOf(c)}

\* the milliseconds that may pass between the handling of a message and the
\* handling of its duplicate
Delays == {0, 1}

\* C25: for call-request, call-accepted and call-rejected, the call table
\* left by handling a message and then its duplicate equals, at that moment,
\* the table left by handling the message once: the same keys, and for every
\* record the same participants, status and time of creation.
C25_DuplicateLeavesTable ==
    \A c \in ReqCalls, e \in ReqIds, r \in ReqIds, ms \in Delays :
        LET requested == Later(RequestCalls(c, e, r), ms)
            accepted == Later(AcceptCalls(c, e, r), ms)
            rejected == Later(RejectCalls(c, e, r), ms)
        IN /\ RequestCallsIn(requested, c, e, r) = requested
           /\ AcceptCallsIn(accepted, c, e, r) = accepted
           /\ RejectCallsIn(rejected, c, e, r) = rejected

\* C26: in every step, a record that enters the call table enters it
\* pending, a record that stays in the table keeps its participants, and an
\* active record that stays in the table stays active.
C26_StatusMovesForward ==
    [][\A c \in DOMAIN activeCalls' :
          IF c \in DOMAIN activeCalls
          THEN /\ activeCalls'[c].participants = activeCalls[c].participants
               /\ activeCalls[c].status = "active" => activeCalls'[c].status = "active"
          ELSE activeCalls'[c].status = "pending"]_vars

\* what a sweep removes and what it keeps
SweepRemovesExpired ==
    /\ DOMAIN ReaperCalls = DOMAIN activeCalls \ Expiring
    /\ \A c \in DOMAIN ReaperCalls :
          /\ ReaperCalls[c].participants = activeCalls[c].participants
          /\ ReaperCalls[c].status = activeCalls[c].status
          /\ ReaperCalls[c].age = Elapsed(activeCalls[c], ReapInterval).age

\* C27: a sweep removes the records that are pending and older than the
\* timeout and no other: every active record and every pending record not
\* older than the timeout stays, with its participants, status and time of
\* creation; and a sweep leaves the registry as it was.
C27_SweepRemovesOnlyExpired ==
    /\ []SweepRemovesExpired
    /\ [][Reaper => UNCHANGED <<activeUsers, sockets, currentUserId>>]_vars

\* a sweep has just removed a record while a pending record that is not yet
\* older than the timeout stays in the table
C27_Witness ==
    /\ \E m \in out : m.ev = "call-failed" /\ m.reason = "timeout"
    /\ \E c \in DOMAIN activeCalls :
          /\ activeCalls[c].status = "pending"
          /\ activeCalls[c].age > 0 /\ activeCalls[c].age <= CallTimeout

\* no pending grace timer of a user that has a live registered connection
\* would, fired now, announce anything or remove a record
TimersSpareTheConnected ==
    \A i \in 1..Len(timers) :
        Connections(timers[i].userId) # {}
        => /\ GraceOut(timers[i]) = {}
           /\ GraceUsers(timers[i]) = activeUsers
           /\ GraceCalls(timers[i]) = activeCalls

\* C28: a step that announces user-offline, or ends a call with reason
\* user-disconnected, is the firing of a grace timer whose user has no
\* registered connection at that moment, and the announcement is about that
\* user; so the disconnect handler announces nothing itself, and the timer
\* set by an eviction does nothing while the evicting connection is
\* registered.
C28_OfflineOnlyAfterGrace ==
    /\ []TimersSpareTheConnected
    /\ [][(\E m \in out' : m.ev = "user-offline" \/ m.reason = "user-disconnected")
            => /\ GraceTimer
               /\ NotRegistered(Head(timers).userId)
               /\ Head(timers).userId \notin DOMAIN activeUsers'
               /\ \A m \in out' : m.ev = "user-offline" => m.userId = Head(timers).userId]_vars
    /\ [][\A s \in sockets : Disconnect(s) => (out' = {} /\ activeCalls' = activeCalls)]_vars

\* a new connection of a user has evicted the old one, whose timer is
\* pending, while a record names the user
C28_Witness ==
    \E i \in 1..Len(timers) :
        /\ ~timers[i].reRegistered
        /\ Connections(timers[i].userId) # {}
        /\ \E c \in DOMAIN activeCalls :
              timers[i].userId \in {CallerOf(c), CalleeOf(c)}

\* C29: an operation completes when a recipient cannot be reached.
\* call-rejected removes the record when the caller it names has no live
\* connection; the sweep removes an expired record whose caller has none; the
\* grace timer of a user without registered connection removes the records
\* naming it whose other participant has none; and a call-request that passes
\* the validations for a callee whose set holds a handle that is no longer
\* live stores its record, rings the live connections of the callee and
\* acknowledges its sender.
C29_UnreachableRecipientNoAbort ==
    /\ \A s \in sockets, c \in DOMAIN activeCalls, e \in ReqIds, r \in ReqIds :
          Connections(r) = {}
          => (c \notin DOMAIN RejectCalls(c, e, r) /\ RejectOut(s, c, e, r) = {})
    /\ \A c \in Expiring :
          Connections(CallerOf(c)) = {} => c \notin DOMAIN ReaperCalls
    /\ (timers # <<>> /\ NotRegistered(Head(timers).userId))
       => \A c \in RecordsNaming(Head(timers).userId) :
             Connections(PartnerOf(c, Head(timers).userId)) = {}
             => c \notin DOMAIN GraceCalls(Head(timers))
    /\ \A s \in sockets, c \in ReqCalls, e \in ReqIds, r \in ReqIds :
          (Passes(c, e, r) /\ ~(activeUsers[e] \subseteq sockets))
          => /\ c \in DOMAIN RequestCalls(c, e, r)
             /\ RequestCalls(c, e, r)[c].status = "pending"
             /\ RequestOut(s, c, e, r)
                  = {Msg(t, "incoming-call", c, r, None) : t \in Connections(e)}
                      \cup {Msg(s, "call-ringing", c, None, None)}

\* a request has just been acknowledged and its record stored although the
\* set of the callee holds a handle whose connection is closed
C29_Witness ==
    \E m \in out :
        /\ m.ev = "call-ringing"
        /\ m.callId \in DOMAIN activeCalls
        /\ CalleeOf(m.callId) \in DOMAIN activeUsers
        /\ ~(activeUsers[CalleeOf(m.callId)] \subseteq sockets)

\* userId is in its grace window: its entry is in the registry with no
\* socket, a timer of it is pending and no user-offline was announced since
\* it registered
InGraceWindow(userId) ==
    /\ userId \in DOMAIN activeUsers
    /\ activeUsers[userId] = {}
    /\ TimersOf(userId) # {}
    /\ offlineSent[userId] = 0

\* C30: while a user is in its grace window, no call-request for it creates
\* or changes a record, and a request that names a call and a caller other
\* than the callee is answered to its sender with
\* call-not-available{user-offline}.
C30_GraceWindowIsOffline ==
    \A u \in UserIds :
        InGraceWindow(u)
        => \A s \in sockets, c \in ReqCalls, r \in ReqIds :
              /\ RequestCalls(c, u, r) = activeCalls
              /\ (c # Empty /\ r # Empty /\ r # u)
                 => RequestOut(s, c, u, r)
                       = {Msg(s, "call-not-available", None, u, "user-offline")}

\* a request has just been refused for a callee in its grace window
C30_Witness ==
    \E m \in out : /\ m.ev = "call-not-available" /\ m.reason = "user-offline"
                   /\ m.userId \in UserIds
                   /\ InGraceWindow(m.userId)

\* no register handler of userId is suspended at its await
LookupDone(userId) == \A a \in awaiting : a[2] # userId

\* C31: in every state where no register of a user waits for its lookup and
\* no grace timer of the user is pending, the presence event broadcast last
\* about the user is user-online if and only if the user has a registered
\* connection.
C31_PresenceAgreesWithRegistry ==
    \A u \in UserIds :
        (LookupDone(u) /\ TimersOf(u) = {})
        => (lastPresence[u] = "user-online" <=> ~NotRegistered(u))

\* C32: in every reachable state every handle stored in the registry is the
\* id of a connection that is open: a connection that closes is removed from
\* every set that stored it.
C32_StoredHandlesAreConnected ==
    \A u \in DOMAIN activeUsers : activeUsers[u] \subseteq sockets

\* the entry of userId is in the registry with no connection
EmptyEntry(userId) == userId \in DOMAIN activeUsers /\ activeUsers[userId] = {}

\* an empty entry has a grace timer pending, and the registry update of a
\* register stores a set that is not empty
EmptyEntryHasTimer ==
    /\ \A u \in UserIds : EmptyEntry(u) => TimersOf(u) # {}
    /\ \A s \in sockets, u \in UserIds :
          /\ u \in DOMAIN RegisterUsers(s, u)
          /\ RegisterUsers(s, u)[u] # {}

\* C33: in every reachable state an entry of the registry whose set is empty
\* has a grace timer of its user pending, and register leaves no entry with an
\* empty set; so, the callbacks that are due being run, an empty entry is
\* eventually removed or holds a connection again.
C33_EmptyEntryIsTransient ==
    /\ []EmptyEntryHasTimer
    /\ \A u \in UserIds : EmptyEntry(u) ~> ~EmptyEntry(u)

\* the entry of a user is empty with a timer pending, while the other user is
\* connected
C33_Witness ==
    \E u \in UserIds :
        /\ EmptyEntry(u) /\ TimersOf(u) # {}
        /\ \E v \in UserIds \ {u} : Connections(v) # {}

\* a call table whose records have two participants, not empty and not the
\* same, and a status that is pending or active
WellFormed(calls) ==
    \A c \in DOMAIN calls :
        /\ DOMAIN calls[c] = {"participants", "status", "age"}
        /\ Len(calls[c].participants) = 2
        /\ calls[c].participants[1] # Empty
        /\ calls[c].participants[2] # Empty
        /\ calls[c].participants[1] # calls[c].participants[2]
        /\ calls[c].status \in {"pending", "active"}

\* C34: in every reachable state every record of the call table has exactly
\* two participants, both not empty and different from each other, and a
\* status that is pending or active; and no handler, whatever message it is
\* given, stores a record that has not.
C34_RecordsWellFormed ==
    /\ WellFormed(activeCalls)
    /\ \A c \in ReqCalls, e \in ReqIds, r \in ReqIds :
          /\ WellFormed(RequestCalls(c, e, r))
          /\ WellFormed(AcceptCalls(c, e, r))
          /\ WellFormed(RejectCalls(c, e, r))
    /\ WellFormed(ReaperCalls)
    /\ timers # <<>> => WellFormed(GraceCalls(Head(timers)))

\* the table holds a pending and an active record after a request with an
\* empty field or with the callee as caller was refused
C34_Witness ==
    /\ \E m \in out : m.ev = "call-failed" /\ m.reason \in {"invalid-parameters", "self-call"}
    /\ \E c \in DOMAIN activeCalls : activeCalls[c].status = "pending"
    /\ \E c \in DOMAIN activeCalls : activeCalls[c].status = "active"

\* C35: a call-accepted or call-rejected sent over a connection that is not
\* registered to the callee of the record it names leaves the call table as
\* it was: only a connection of the callee makes a record active or removes
\* it by call-rejected.
C35_OnlyCalleeAnswers ==
    \A s \in sockets, c \in DOMAIN activeCalls, e \in ReqIds, r \in ReqIds :
        s \notin Connections(CalleeOf(c))
        => /\ AcceptCalls(c, e, r) = activeCalls
           /\ RejectCalls(c, e, r) = activeCalls

\* the events on which the client's call is over
OverEvents == {"call-rejected", "call-failed", "call-not-available", "call-ended"}

\* what handleVideoCall does while callStatus is not idle, and what the
\* listeners of the four events leave in callStatus
VideoCallNeedsIdle ==
    /\ callStatus # "idle"
       => \A c \in CallIds, u \in Contacts, online \in BOOLEAN :
             /\ VideoCallEmits(socket, callStatus, c, u, online) = {}
             /\ VideoCallStatus(socket, callStatus, u, online) = callStatus
    /\ \A ev \in OverEvents : ListenerStatus(ev) = "idle"

\* C36: in the chat client a call-request is emitted only by a step taken
\* while callStatus is idle; while callStatus is calling, ringing, incoming
\* or accepted, handleVideoCall emits nothing and leaves callStatus as it
\* was; and a step that handles call-rejected, call-failed,
\* call-not-available or call-ended leaves callStatus idle.
C36_CallRequestOnlyWhenIdle ==
    /\ []VideoCallNeedsIdle
    /\ [][(\E m \in emitted' : m.ev = "call-request") => callStatus = "idle"]_vars
    /\ [][alerted' \in OverEvents => callStatus' = "idle"]_vars

\* handleVideoCall was just refused because a call is ringing, placed by an
\* earlier handleVideoCall whose timeout is pending
C36_Witness ==
    /\ alerted = "call-in-progress"
    /\ callStatus \in {"calling", "ringing", "incoming", "accepted"}
    /\ callTimeouts # {}

====
